---- MODULE Spec2Model ----
(***************************************************************************)
(* A model of build_db.py (SpliceV): the binned exon index built by store, *)
(* the coverage aggregation of build_coverage_dict and the summary rows    *)
(* written by build_sample_db.                                             *)
(*                                                                         *)
(* Files are read one line per step.  A line is represented by the fields  *)
(* the code extracts from it; the lines read so far are kept in gtf and    *)
(* wig.  Coverage values are floats in the program; here they are the      *)
(* integers those floats hold, and the quotient written to the table is a  *)
(* fraction in lowest terms.                                               *)
(*                                                                         *)
(* master[chromosome] is a dict with one slot per multiple of interval     *)
(* below max_coord.  The model stores only the slots that hold an exon; a  *)
(* pre-allocated slot that is not stored is the empty dict (SlotAt).       *)
(***************************************************************************)
EXTENDS Integers, Sequences, FiniteSets, Bags, TLC

VARIABLES pc, err, out_db, args, gtf, master, call, wig, chromosome,
          notices, rows

vars == <<pc, err, out_db, args, gtf, master, call, wig, chromosome,
          notices, rows>>

\* ------------------------------------------------------------ constants
max_coord == 400000000
interval == 10000

\* ------------------------------------------------------------ bounds
\* Lines of the annotation file read by store.
MaxGtf == 2
\* Lines of signal files read over all calls of build_coverage_dict.
MaxWig == 4

\* ------------------------------------------------------------ helpers
EmptyDict == << >>

Put(f, k, v) == [x \in (DOMAIN f) \cup {k} |-> IF x = k THEN v ELSE f[x]]

RECURSIVE sum(_)
sum(s) == IF s = << >> THEN 0 ELSE Head(s) + sum(Tail(s))

RECURSIVE GCD(_, _)
GCD(a, b) == IF b = 0 THEN a ELSE GCD(b, a % b)

\* n / d as Python computes it for d > 0: the rational, in lowest terms.
TrueDiv(n, d) == LET g == GCD(n, d) IN <<n \div g, d \div g>>

\* ------------------------------------------------------------ inputs
\* Strings that are split or joined are sequences of tokens; an attribute
\* that the record lacks is the empty one.
NoAttr == << >>

GtfComment == [kind |-> "#", chrom |-> "", type |-> "", start |-> 0,
               stop |-> 0, strand |-> "", gene_name |-> NoAttr,
               gene_id |-> NoAttr, transcript_id |-> NoAttr,
               exon_number |-> NoAttr]

Feature(c, t, s, e, str, gn, gi, tr, ex) ==
    [kind |-> "record", chrom |-> c, type |-> t, start |-> s, stop |-> e,
     strand |-> str, gene_name |-> gn, gene_id |-> gi, transcript_id |-> tr,
     exon_number |-> ex]

\* A gene record: not an exon.
GeneLine == Feature("chr1", "gene", 1000, 10010, "+", <<"GENEA">>, <<"G1">>, NoAttr, NoAttr)
\* ENST1 exon 1 on chr1, inside bin 0.
ExonA == Feature("chr1", "exon", 1000, 1099, "+", <<"GENEA">>, <<"G1">>, <<"ENST1">>, <<"1">>)
\* Shares bin 0 with ExonA, disjoint from it, and runs into bin 10000.
\* It has no gene_name: the gene comes from gene_id.
ExonE == Feature("chr1", "exon", 1100, 10010, "-", NoAttr, <<"G3">>, <<"ENST3">>, <<"1">>)
\* The identity of ExonA once more, in the same bin of the same chromosome.
ExonD1 == Feature("chr1", "exon", 1050, 1150, "-", <<"GENEB">>, <<"G2">>, <<"ENST1">>, <<"1">>)
\* The identity of ExonA once more, on another chromosome.
ExonD2 == Feature("chr2", "exon", 1000, 1099, "-", <<"GENEA">>, <<"G1">>, <<"ENST1">>, <<"1">>)
\* An exon record without transcript_id.
ExonNoTranscript == Feature("chr1", "exon", 1200, 1300, "+", <<"GENEA">>, <<"G1">>, NoAttr, <<"2">>)
\* An exon that starts at max_coord: no slot was allocated for it.
ExonFar == Feature("chr1", "exon", max_coord, max_coord + 100, "+", <<"GENEA">>, <<"G1">>, <<"ENST4">>, <<"1">>)

GtfLines == {GtfComment, GeneLine, ExonA, ExonE, ExonD1, ExonD2,
             ExonNoTranscript, ExonFar}

Marker(c) == [kind |-> "v", chrom |-> c, position |-> 0, coverage |-> 0]
Point(p, v) == [kind |-> "p", chrom |-> "", position |-> p, coverage |-> v]

WigLines == {Marker("chr1"), Marker("chr2"), Point(1050, 4), Point(10005, 6)}

\* Which of -w, -wn, -wp were given.
ArgSets == { [wig |-> TRUE,  negwig |-> FALSE, poswig |-> FALSE],
             [wig |-> FALSE, negwig |-> TRUE,  poswig |-> TRUE],
             [wig |-> FALSE, negwig |-> TRUE,  poswig |-> FALSE] }

\* The calls of build_coverage_dict that build_sample_db makes, in order.
\* strand = "" is the default strand=False.
Calls(a) ==
    IF a.wig THEN << [path |-> "wig", strand |-> ""] >>
    ELSE IF a.negwig /\ a.poswig
         THEN << [path |-> "negwig", strand |-> "-"],
                 [path |-> "poswig", strand |-> "+"] >>
         ELSE << >>

\* ------------------------------------------------------------ the index
\* b in range(0, max_coord, interval): b is a key of every master[c].
IsSlot(b) == b \in 0..(max_coord - 1) /\ b % interval = 0

\* master[c][b] for a pre-allocated slot b.
SlotAt(m, c, b) == IF b \in DOMAIN m[c] THEN m[c][b] ELSE EmptyDict

\* '__'.join([transcript, exon])
ExonId(transcript, exon) == transcript \o <<"__">> \o exon

\* exon_id.split('__')
RECURSIVE Split(_)
Split(id) ==
    IF id = << >> THEN << << >> >>
    ELSE LET rest == Split(Tail(id)) IN
         IF Head(id) = "__" THEN << << >> >> \o rest
         ELSE << <<Head(id)>> \o Head(rest) >> \o Tail(rest)

Entry(start) == interval * (start \div interval)

\* ------------------------------------------------------------ Init
Init ==
    /\ pc = "start"
    /\ err = "none"
    /\ out_db \in {"absent", "stale", "unopenable"}
    /\ args \in ArgSets
    /\ gtf = << >>
    /\ master = EmptyDict
    /\ call = 0
    /\ wig = << >>
    /\ chromosome = "unbound"
    /\ notices = 0
    /\ rows = EmptyBag

\* ------------------------------------------------------------ actions
\* Module level: sqlite3.connect opens the database file, creating it when
\* it does not exist, or the script exits.
Connect ==
    /\ pc = "start"
    /\ IF out_db = "unopenable"
       THEN /\ pc' = "exit"
            /\ err' = "SystemExit"
            /\ UNCHANGED out_db
       ELSE /\ pc' = "store"
            /\ out_db' = IF out_db = "absent" THEN "empty" ELSE out_db
            /\ UNCHANGED err
    /\ UNCHANGED <<args, gtf, master, call, wig, chromosome, notices, rows>>

Crash(e) ==
    /\ pc' = "crashed"
    /\ err' = e

\* The bucket of a chromosome seen for the first time.
Allocate(m, c) == IF c \in DOMAIN m THEN m ELSE Put(m, c, EmptyDict)

\* Register that also registers the exon in the bin of its stop.
Register_EveryBin(m, c, entry, id, t) ==
    LET last == interval * (t.stop \div interval)
        m1 == [m EXCEPT ![c] = Put(@, entry, Put(SlotAt(m, c, entry), id, t))]
    IN  [m1 EXCEPT ![c] = Put(@, last, Put(SlotAt(m1, c, last), id, t))]

\* master[chromosome][entry][exon_id] = (start, stop, strand, [], gene)
Register(m, c, entry, id, t) ==
    [m EXCEPT ![c] = Put(@, entry, Put(SlotAt(m, c, entry), id, t))]

StoreLine(line) ==
    /\ pc = "store"
    /\ Len(gtf) < MaxGtf
    /\ gtf' = Append(gtf, line)
    /\ UNCHANGED <<out_db, args, call, wig, chromosome, notices, rows>>
    /\ IF line.kind = "#" \/ line.type # "exon"
       THEN UNCHANGED <<pc, err, master>>
       ELSE LET m1 == Allocate(master, line.chrom)
                gene == IF line.gene_name # NoAttr THEN line.gene_name
                        ELSE line.gene_id
                entry == Entry(line.start)
                t == [start |-> line.start, stop |-> line.stop,
                      strand |-> line.strand, base_coverage |-> << >>,
                      gene |-> gene]
            IN  IF gene = NoAttr \/ line.transcript_id = NoAttr
                   \/ line.exon_number = NoAttr
                THEN Crash("IndexError") /\ master' = m1
                ELSE IF ~IsSlot(entry)
                THEN Crash("KeyError") /\ master' = m1
                ELSE /\ master' = Register(m1, line.chrom, entry,
                             ExonId(line.transcript_id, line.exon_number), t)
                     /\ UNCHANGED <<pc, err>>

\* The next call of build_coverage_dict, or the table.
Enter(n) ==
    IF n <= Len(Calls(args))
    THEN /\ pc' = "coverage"
         /\ call' = n
         /\ wig' = Append(wig, << >>)
         /\ chromosome' = "unbound"
    ELSE /\ pc' = "db"
         /\ UNCHANGED <<call, wig, chromosome>>

StoreEOF ==
    /\ pc = "store"
    /\ Enter(1)
    /\ UNCHANGED <<err, out_db, args, gtf, master, notices, rows>>

\* Lines read so far by all calls of build_coverage_dict.
RECURSIVE WigRead(_)
WigRead(w) == IF w = << >> THEN 0 ELSE Len(Head(w)) + WigRead(Tail(w))

\* master[chromosome][primary] raises KeyError.
NoSuchSlot(m, c, primary) == c \notin DOMAIN m \/ ~IsSlot(primary)

\* Selected without the lower end of the span.
Selected_NoStart(value, position, strand) ==
    IF strand # ""
    THEN value.stop >= position /\ value.strand = strand
    ELSE value.stop >= position

\* Selected without the comparison of strands.
Selected_NoStrand(value, position, strand) ==
    value.stop >= position /\ position >= value.start

\* The test of lines 109 and 113 on the tuple value.
Selected(value, position, strand) ==
    IF strand # ""
    THEN value.stop >= position /\ position >= value.start
         /\ value.strand = strand
    ELSE value.stop >= position /\ position >= value.start

\* Accumulate that keeps only the value of the last point.
Accumulate_Overwrite(m, c, primary, position, coverage, strand) ==
    [m EXCEPT ![c] =
        [b \in DOMAIN @ |->
            IF b = primary
            THEN [key \in DOMAIN @[b] |->
                    IF Selected(@[b][key], position, strand)
                    THEN [@[b][key] EXCEPT !.base_coverage = <<coverage>>]
                    ELSE @[b][key]]
            ELSE @[b]]]

\* The loop over master[chromosome][primary].items().
Accumulate(m, c, primary, position, coverage, strand) ==
    [m EXCEPT ![c] =
        [b \in DOMAIN @ |->
            IF b = primary
            THEN [key \in DOMAIN @[b] |->
                    IF Selected(@[b][key], position, strand)
                    THEN [@[b][key] EXCEPT
                            !.base_coverage = Append(@, coverage)]
                    ELSE @[b][key]]
            ELSE @[b]]]

CoverageLine(line) ==
    /\ pc = "coverage"
    /\ WigRead(wig) < MaxWig
    /\ wig' = [wig EXCEPT ![call] = Append(@, line)]
    /\ UNCHANGED <<out_db, args, gtf, call, rows>>
    /\ IF line.kind = "v"
       THEN /\ chromosome' = line.chrom
            /\ UNCHANGED <<pc, err, master, notices>>
       ELSE LET primary == Entry(line.position) IN
            /\ UNCHANGED chromosome
            /\ IF chromosome = "unbound"
               THEN Crash("UnboundLocalError") /\ UNCHANGED <<master, notices>>
               ELSE IF NoSuchSlot(master, chromosome, primary)
               THEN /\ notices' = notices + 1
                    /\ UNCHANGED <<pc, err, master>>
               ELSE /\ master' = Accumulate(master, chromosome, primary,
                                     line.position, line.coverage,
                                     Calls(args)[call].strand)
                    /\ UNCHANGED <<pc, err, notices>>

CoverageEOF ==
    /\ pc = "coverage"
    /\ Enter(call + 1)
    /\ UNCHANGED <<err, out_db, args, gtf, master, notices, rows>>

\* The places of the index that hold an exon: (chromosome, position, exon_id).
Places(m) ==
    UNION { UNION { { <<c, b, id>> : id \in DOMAIN m[c][b] }
                    : b \in DOMAIN m[c] }
            : c \in DOMAIN m }

\* RowOf with the length stop - start.
RowOf_ExclusiveLength(m, c, b, id) ==
    LET values == m[c][b][id]
        parts == Split(id)
    IN  [gene |-> values.gene, transcript |-> parts[1], exon |-> parts[2],
         coverage |-> TrueDiv(sum(values.base_coverage),
                              values.stop - values.start),
         chromosome |-> c, start |-> values.start, stop |-> values.stop,
         strand |-> values.strand]

\* The row inserted for the exon at one place.
RowOf(m, c, b, id) ==
    LET values == m[c][b][id]
        parts == Split(id)
    IN  [gene |-> values.gene, transcript |-> parts[1], exon |-> parts[2],
         coverage |-> TrueDiv(sum(values.base_coverage),
                              1 + values.stop - values.start),
         chromosome |-> c, start |-> values.start, stop |-> values.stop,
         strand |-> values.strand]

\* Summarize with one row for each exon_id, whatever the places it is at.
Summarize_ByIdentity(m) ==
    LET ids == { p[3] : p \in Places(m) }
        pick(id) == CHOOSE p \in Places(m) : p[3] = id
    IN  SetToBag({ RowOf(m, pick(id)[1], pick(id)[2], id) : id \in ids })

\* The table after the loop of lines 137-143.
Summarize(m) ==
    LET rs == { RowOf(m, p[1], p[2], p[3]) : p \in Places(m) } IN
    [r \in rs |->
        Cardinality({p \in Places(m) : RowOf(m, p[1], p[2], p[3]) = r})]

WriteDb ==
    /\ pc = "db"
    /\ UNCHANGED <<args, gtf, master, call, wig, chromosome, notices>>
    /\ IF out_db = "stale"
       THEN Crash("OperationalError") /\ UNCHANGED <<out_db, rows>>
       ELSE IF \E p \in Places(master) : Len(Split(p[3])) # 2
       THEN Crash("ValueError") /\ UNCHANGED <<out_db, rows>>
       ELSE IF \E p \in Places(master) :
                  1 + master[p[1]][p[2]][p[3]].stop
                    - master[p[1]][p[2]][p[3]].start = 0
       THEN Crash("ZeroDivisionError") /\ UNCHANGED <<out_db, rows>>
       ELSE /\ rows' = Summarize(master)
            /\ out_db' = "written"
            /\ pc' = "done"
            /\ UNCHANGED err

\* One step of the script over annotation lines G and signal lines W.
Run(G, W) ==
    \/ Connect
    \/ \E line \in G : StoreLine(line)
    \/ StoreEOF
    \/ \E line \in W : CoverageLine(line)
    \/ CoverageEOF
    \/ WriteDb

Next == Run(GtfLines, WigLines)

Spec == Init /\ [][Next]_vars

\* The runs over well-formed exon records of two chromosomes and both
\* strands, with every signal line.
NextCoverage == Run({ExonA, ExonE, ExonD2}, WigLines)

SpecCoverage == Init /\ [][NextCoverage]_vars

\* The runs over every annotation line, with the signal of one chromosome.
NextIndex == Run(GtfLines, {Marker("chr1"), Point(1050, 4)})

SpecIndex == Init /\ [][NextIndex]_vars

\* ------------------------------------------------------------ reference
\* What the claims say of a run is stated over the lines read (gtf, wig),
\* without the operators of the actions above.

Last(s) == s[Len(s)]

\* The chromosome named by the most recent marker of a signal source.
RECURSIVE LastMarker(_)
LastMarker(lines) ==
    IF lines = << >> THEN "unbound"
    ELSE IF Last(lines).kind = "v" THEN Last(lines).chrom
    ELSE LastMarker(SubSeq(lines, 1, Len(lines) - 1))

Contains(t, position) == t.start <= position /\ position <= t.stop

Passes(t, strand) == strand = "" \/ t.strand = strand

BinOf(position) == interval * (position \div interval)

\* The values a signal source gives the exon t of chromosome c: those of
\* the points inside its span, of the bin b when binned, of every bin when not.
RECURSIVE Samples(_, _, _, _, _, _, _)
Samples(lines, cur, strand, c, b, t, binned) ==
    IF lines = << >> THEN << >>
    ELSE LET l == Head(lines) IN
         IF l.kind = "v"
         THEN Samples(Tail(lines), l.chrom, strand, c, b, t, binned)
         ELSE (IF /\ cur = c
                  /\ Contains(t, l.position)
                  /\ Passes(t, strand)
                  /\ (binned => BinOf(l.position) = b)
               THEN <<l.coverage>> ELSE << >>)
              \o Samples(Tail(lines), cur, strand, c, b, t, binned)

\* The same over all the sources w read so far, in the order of the calls.
RECURSIVE AllSamples(_, _, _, _, _, _)
AllSamples(w, k, c, b, t, binned) ==
    IF k > Len(w) THEN << >>
    ELSE Samples(w[k], "unbound", Calls(args)[k].strand, c, b, t, binned)
         \o AllSamples(w, k + 1, c, b, t, binned)

IsPrefix(s, t) == Len(s) <= Len(t) /\ SubSeq(t, 1, Len(s)) = s

\* A step of build_coverage_dict that read a point record.
PointStep ==
    /\ pc = "coverage"
    /\ Len(wig'[call]) = Len(wig[call]) + 1
    /\ Last(wig'[call]).kind = "p"

\* ------------------------------------------------------------ claims

\* C1: a point record (position, value) appends value to exactly the exons
\* registered on the chromosome of the most recent marker of the source, in
\* the bin interval * (position // interval), whose span contains position
\* and whose strand passes the filter; no other accumulator changes and no
\* exon is added or removed.
C1_PointAttribution ==
    [][PointStep =>
        LET l == Last(wig'[call])
            cur == LastMarker(wig[call])
            strand == Calls(args)[call].strand
        IN  /\ Places(master') = Places(master)
            /\ \A p \in Places(master) :
                 LET t == master[p[1]][p[2]][p[3]] IN
                 master'[p[1]][p[2]][p[3]].base_coverage =
                    IF /\ p[1] = cur
                       /\ p[2] = BinOf(l.position)
                       /\ Contains(t, l.position)
                       /\ Passes(t, strand)
                    THEN Append(t.base_coverage, l.coverage)
                    ELSE t.base_coverage]_vars

\* Two exons share a bin and have disjoint spans; the point just read lies
\* in one of them, which holds its value, and the other holds nothing.
C1_Witness ==
    /\ pc = "coverage"
    /\ wig[call] # << >>
    /\ Last(wig[call]).kind = "p"
    /\ \E c \in DOMAIN master : \E b \in DOMAIN master[c] :
         \E i, j \in DOMAIN master[c][b] :
            LET ti == master[c][b][i]
                tj == master[c][b][j]
            IN  /\ i # j
                /\ ti.stop < tj.start
                /\ Contains(ti, Last(wig[call]).position)
                /\ ti.base_coverage = <<Last(wig[call]).coverage>>
                /\ tj.base_coverage = << >>

\* C2: a point read with strand '+' changes the accumulator of no '-' exon,
\* a point read with strand '-' that of no '+' exon, and a point read
\* without a strand filter is appended to every exon of its bin whose span
\* contains it, whatever the exon's strand.
C2_StrandFilter ==
    [][PointStep =>
        LET l == Last(wig'[call])
            cur == LastMarker(wig[call])
            strand == Calls(args)[call].strand
        IN  \A p \in Places(master) :
              LET t == master[p[1]][p[2]][p[3]]
                  after == master'[p[1]][p[2]][p[3]].base_coverage
              IN  /\ (strand = "+" /\ t.strand = "-")
                        => after = t.base_coverage
                  /\ (strand = "-" /\ t.strand = "+")
                        => after = t.base_coverage
                  /\ (/\ strand = ""
                      /\ p[1] = cur
                      /\ p[2] = BinOf(l.position)
                      /\ Contains(t, l.position))
                        => after = Append(t.base_coverage, l.coverage)]_vars

\* The '-' source has just fed a point inside a '+' exon of the current
\* chromosome and bin, and that exon holds nothing.
C2_Witness ==
    /\ pc = "coverage"
    /\ Calls(args)[call].strand = "-"
    /\ wig[call] # << >>
    /\ Last(wig[call]).kind = "p"
    /\ \E p \in Places(master) :
         LET t == master[p[1]][p[2]][p[3]] IN
         /\ t.strand = "+"
         /\ p[1] = chromosome
         /\ p[2] = BinOf(Last(wig[call]).position)
         /\ Contains(t, Last(wig[call]).position)
         /\ t.base_coverage = << >>

\* The chromosomes that a signal source fed at least one point for.
RECURSIVE Fed(_, _)
Fed(lines, cur) ==
    IF lines = << >> THEN {}
    ELSE IF Head(lines).kind = "v" THEN Fed(Tail(lines), Head(lines).chrom)
    ELSE {cur} \cup Fed(Tail(lines), cur)

RECURSIVE AbsentFed(_)
AbsentFed(k) ==
    IF k > Len(wig) THEN 0
    ELSE Cardinality({c \in Fed(wig[k], "unbound") :
                        c # "unbound" /\ c \notin DOMAIN master})
         + AbsentFed(k + 1)

\* C3: the points of a chromosome absent from the index raise exactly one
\* notice for that chromosome in the source that feeds them, however many
\* points there are.
C3_OneNoticePerChromosome == notices = AbsentFed(1)

\* The number of rows of the table that are in the set rs.
RowCount(rs) == BagCardinality([r \in rs |-> rows[r]])

\* The exon records read by store.
ExonRecords == {i \in 1..Len(gtf) : gtf[i].kind = "record" /\ gtf[i].type = "exon"}

\* C4: the coverage of the row of an exon is the sum of its accumulated
\* samples divided by 1 + stop - start; it is 0 when the exon holds no
\* sample.
C4_Coverage ==
    pc = "done" =>
      \A p \in Places(master) :
        LET t == master[p[1]][p[2]][p[3]]
            S == sum(t.base_coverage)
        IN  \E r \in DOMAIN rows :
              /\ r.chromosome = p[1]
              /\ r.transcript \o <<"__">> \o r.exon = p[3]
              /\ r.start = t.start
              /\ r.stop = t.stop
              /\ r.coverage[2] > 0
              /\ r.coverage[1] * (1 + t.stop - t.start) = S * r.coverage[2]
              /\ (S = 0 => r.coverage[1] = 0)

\* The table is written; one exon holds a single sample and another none.
C4_Witness ==
    /\ pc = "done"
    /\ \E p, q \in Places(master) :
         /\ Len(master[p[1]][p[2]][p[3]].base_coverage) = 1
         /\ master[q[1]][q[2]][q[3]].base_coverage = << >>
         /\ \E r \in DOMAIN rows :
              /\ r.chromosome = p[1] /\ r.start = master[p[1]][p[2]][p[3]].start
              /\ r.coverage[1] > 0

\* C5 as stated: the table holds exactly one row for each identity
\* (transcript_id, exon_number) read from the annotation.
C5_OneRowPerIdentity ==
    pc = "done" =>
      \A i \in ExonRecords :
        RowCount({r \in DOMAIN rows :
                    /\ r.transcript = gtf[i].transcript_id
                    /\ r.exon = gtf[i].exon_number}) = 1

\* C5, amended: the table holds exactly one row for each (chromosome, bin,
\* transcript_id, exon_number) read from the annotation, bin being
\* interval * (start // interval), and no other row; the row carries the
\* span of the last record read for it.
C5_OneRowPerPlace ==
    pc = "done" =>
      /\ \A i \in ExonRecords :
           RowCount({r \in DOMAIN rows :
                       /\ r.chromosome = gtf[i].chrom
                       /\ BinOf(r.start) = BinOf(gtf[i].start)
                       /\ r.transcript = gtf[i].transcript_id
                       /\ r.exon = gtf[i].exon_number}) = 1
      /\ \A r \in DOMAIN rows :
           \E i \in ExonRecords :
             /\ r.chromosome = gtf[i].chrom
             /\ r.transcript = gtf[i].transcript_id
             /\ r.exon = gtf[i].exon_number
             /\ r.start = gtf[i].start
             /\ r.stop = gtf[i].stop
             /\ r.strand = gtf[i].strand
             /\ \A j \in ExonRecords :
                  (/\ j > i
                   /\ gtf[j].chrom = gtf[i].chrom
                   /\ BinOf(gtf[j].start) = BinOf(gtf[i].start)
                   /\ gtf[j].transcript_id = gtf[i].transcript_id
                   /\ gtf[j].exon_number = gtf[i].exon_number) => FALSE

\* The table is written from an annotation that has one identity in two
\* exon records of different chromosomes; it has a row for each.
C5_Witness ==
    /\ pc = "done"
    /\ \E i, j \in ExonRecords :
         /\ gtf[i].chrom # gtf[j].chrom
         /\ gtf[i].transcript_id = gtf[j].transcript_id
         /\ gtf[i].exon_number = gtf[j].exon_number
         /\ RowCount({r \in DOMAIN rows :
                        /\ r.transcript = gtf[i].transcript_id
                        /\ r.exon = gtf[i].exon_number}) = 2

\* C6: a step of build_coverage_dict removes no exon and no sample, keeps
\* the start, stop, strand and gene of every exon and the bin it is
\* registered in, and only appends; the samples of an exon are what the
\* first source gave it followed by what the second gave it.
C6_AdditiveAcrossSources ==
    [][/\ pc = "coverage" =>
            /\ Places(master') = Places(master)
            /\ \A p \in Places(master) :
                 LET t == master[p[1]][p[2]][p[3]]
                     u == master'[p[1]][p[2]][p[3]]
                 IN  /\ u.start = t.start /\ u.stop = t.stop
                     /\ u.strand = t.strand /\ u.gene = t.gene
                     /\ IsPrefix(t.base_coverage, u.base_coverage)
       /\ \A p \in Places(master') :
            LET u == master'[p[1]][p[2]][p[3]] IN
            u.base_coverage = AllSamples(wig', 1, p[1], p[2], u, TRUE)]_vars

\* The second source is being read; a '-' exon holds what the first source
\* gave it and a '+' exon what the second gave it.
C6_Witness ==
    /\ pc = "coverage"
    /\ call = 2
    /\ \E p, q \in Places(master) :
         LET t == master[p[1]][p[2]][p[3]]
             u == master[q[1]][q[2]][q[3]]
         IN  /\ t.strand = "-"
             /\ t.base_coverage # << >>
             /\ t.base_coverage
                  = Samples(wig[1], "unbound", "-", p[1], p[2], t, TRUE)
             /\ u.strand = "+"
             /\ u.base_coverage # << >>
             /\ u.base_coverage
                  = Samples(wig[2], "unbound", "+", q[1], q[2], u, TRUE)

\* C7: when the output database exists already, or cannot be opened, no
\* line of the annotation or of a signal source is read.
C7_FailFast ==
    out_db \in {"stale", "unopenable"} =>
        Len(gtf) = 0 /\ WigRead(wig) = 0

Malformed(line) ==
    /\ line.kind = "record"
    /\ line.type = "exon"
    /\ \/ line.transcript_id = NoAttr
       \/ line.exon_number = NoAttr
       \/ (line.gene_name = NoAttr /\ line.gene_id = NoAttr)

\* C8: an exon record without transcript_id, exon_number or gene does not
\* abort store, and the well-formed exon records read stay registered.
C8_SkipAndContinue ==
    (\E i \in 1..Len(gtf) : Malformed(gtf[i])) =>
        /\ pc # "crashed"
        /\ \A i \in ExonRecords :
             ~Malformed(gtf[i]) =>
                \E p \in Places(master) :
                   /\ p[1] = gtf[i].chrom
                   /\ p[3] = gtf[i].transcript_id \o <<"__">> \o gtf[i].exon_number

\* C9: every exon of the index is in a pre-allocated slot of the chromosome
\* of a record it was read from, the slot interval * (start // interval) of
\* its own start, and in no other; every exon record that store has
\* processed is registered there.
C9_IndexInvariant ==
    /\ \A p \in Places(master) :
         LET t == master[p[1]][p[2]][p[3]] IN
         /\ p[2] = interval * (t.start \div interval)
         /\ p[2] % interval = 0 /\ p[2] >= 0 /\ p[2] < max_coord
         /\ \E i \in ExonRecords :
              /\ gtf[i].chrom = p[1]
              /\ gtf[i].transcript_id \o <<"__">> \o gtf[i].exon_number = p[3]
              /\ gtf[i].start = t.start /\ gtf[i].stop = t.stop
              /\ gtf[i].strand = t.strand
    /\ pc # "crashed" =>
         \A i \in ExonRecords :
            \E p \in Places(master) :
               /\ p[1] = gtf[i].chrom
               /\ p[2] = interval * (gtf[i].start \div interval)
               /\ p[3] = gtf[i].transcript_id \o <<"__">> \o gtf[i].exon_number

\* store is over; an exon whose span ends in a later bin is registered in
\* the bin of its start, and that later bin holds nothing.
C9_Witness ==
    /\ pc \in {"coverage", "db", "done"}
    /\ \E p \in Places(master) :
         LET t == master[p[1]][p[2]][p[3]] IN
         /\ interval * (t.stop \div interval) > p[2]
         /\ interval * (t.stop \div interval) \notin DOMAIN master[p[1]]

\* C10: the samples of every exon are those a scan of all the exons of the
\* current chromosome would give it: the values of the points inside its
\* span, whatever their bin.
C10_EqualsLinearScan ==
    \A p \in Places(master) :
       LET t == master[p[1]][p[2]][p[3]] IN
       t.base_coverage = AllSamples(wig, 1, p[1], p[2], t, FALSE)
====
